---- MODULE Spec2Model ----
(***************************************************************************)
(* A model of the ArtiKV adaptive radix tree (art.hpp and its              *)
(* implementation file): the node family Node4 / Node16 / Node48 /         *)
(* Node256 / LeafNode, the heap they are allocated on, and the tree        *)
(* operations ART::insert, ART::search, ART::remove and ART::size.         *)
(*                                                                         *)
(* Memory is modelled explicitly.  A pointer is an index into `heap`       *)
(* (0 is nullptr), `delete` marks a cell freed and leaves every pointer    *)
(* to it in place, and `new` either takes a fresh cell or hands back the   *)
(* most recently freed cell of the same class.  Reads the C++ standard     *)
(* leaves undefined (a freed node, a byte past the end of a key, an        *)
(* uninitialised prefix byte) are resolved by an oracle that each          *)
(* operation draws nondeterministically.                                   *)
(***************************************************************************)
EXTENDS Integers, Sequences, FiniteSets, TLC

\* ------------------------------------------------------------------------
\* Bounds of the model
\* ------------------------------------------------------------------------
MaxByte == 4
MaxOracleByte == 1
MaxKeyByte == 1
MaxKeyLen == 3
MaxVal == 2
MaxOps == 3
MaxQueries == 1
RmOps == 2
OrdKeyLen == 2
OrdOps == 3
GrowOps == 5
ConcKeyLen == 1
ConcOps == 3
NodeOps == 5
CapRun == 9
CapOps == 3

\* ------------------------------------------------------------------------
\* Program constants
\* ------------------------------------------------------------------------
MAX_PREFIX_LEN == 8
Node4Cap == 4
Node16Cap == 16
Node48Cap == 48

nullptr == 0
\* content of a byte of storage that no statement has written yet
Uninit == -1
\* results of a lookup that are not a stored value
Absent == 0
Crash == -1

\* the bytes a node can index (unsigned char, cut down to the bytes in use)
Bytes == 0..MaxByte
\* the bytes an undefined read can yield
OracleBytes == 0..MaxOracleByte
Vals == 1..MaxVal

Min(a, b) == IF a < b THEN a ELSE b

\* the byte strings of length lo..hi over a set of bytes
SeqsUpTo(S, lo, hi) == UNION {[1..n -> S] : n \in lo..hi}

\* ARTDataRef::operator[]: index i of a span; past the end the read is
\* undefined and yields the oracle's byte
At(key, i, ob) == IF i >= 0 /\ i < Len(key) THEN key[i + 1] ELSE ob

\* ------------------------------------------------------------------------
\* Oracle: the outcome of the undefined reads of one operation
\*   ob    the byte read past the end of a key
\*   ub    the byte read from storage that was never written
\*   asan  TRUE when touching a freed node aborts the process (the Debug
\*         build links the address sanitizer), FALSE when the stale
\*         contents are read
\*   reuse TRUE when operator new hands back the last freed cell of the
\*         requested class, FALSE when it returns fresh storage
\* ------------------------------------------------------------------------
Oracles == [ob : OracleBytes, ub : OracleBytes, asan : BOOLEAN, reuse : BOOLEAN]

\* ------------------------------------------------------------------------
\* Nodes
\* ------------------------------------------------------------------------
NoArr == <<>>

makeLeafNode(key, value) ==
  [type |-> "Leaf", freed |-> FALSE, key |-> key, val |-> value,
   children_count |-> 0, prefix_len |-> 0, prefix |-> NoArr,
   keys |-> NoArr, children |-> NoArr]

\* InnerNode(0, 0): the prefix array is left uninitialised
InnerNode(t, ks, cs) ==
  [type |-> t, freed |-> FALSE, key |-> <<>>, val |-> 0,
   children_count |-> 0, prefix_len |-> 0,
   prefix |-> [i \in 0..(MAX_PREFIX_LEN - 1) |-> Uninit],
   keys |-> ks, children |-> cs]

makeNode4 ==
  InnerNode("Node4", [i \in 0..(Node4Cap - 1) |-> 0],
                     [i \in 0..(Node4Cap - 1) |-> nullptr])

makeNode16 ==
  InnerNode("Node16", [i \in 0..(Node16Cap - 1) |-> 0],
                      [i \in 0..(Node16Cap - 1) |-> nullptr])

makeNode48 ==
  InnerNode("Node48", [b \in Bytes |-> 0],
                      [i \in 0..(Node48Cap - 1) |-> nullptr])

makeNode256 ==
  InnerNode("Node256", NoArr, [b \in Bytes |-> nullptr])

\* a child slot (NodeRef&): the root slot of the tree, slot i of the
\* children array of the node at address n, or the shared static NULL_NODE
RootSlot == [n |-> 0, i |-> 0]
NULL_NODE == [n |-> -1, i |-> 0]
ChildSlot(a, i) == [n |-> a, i |-> i]

\* ------------------------------------------------------------------------
\* LeafNode
\* ------------------------------------------------------------------------
\* std::equal(this->key.begin()+depth, this->key.end(), key.begin()): the
\* stored bytes from `depth` on are compared with the query's bytes from 0
leafMatches(leaf, key, depth) ==
  /\ Len(key) = Len(leaf.key)
  /\ \A j \in 0..(Len(leaf.key) - depth - 1) : leaf.key[depth + j + 1] = key[j + 1]

\* begin()+depth lies past end(): the compared range is invalid and the
\* comparison runs off the stored key
leafMatchesOverrun(leaf, key, depth) ==
  Len(key) = Len(leaf.key) /\ depth > Len(leaf.key)

\* ------------------------------------------------------------------------
\* InnerNode header
\* ------------------------------------------------------------------------
\* the byte at index j of the prefix array; indices past the array fall
\* into the member that follows it (the keys array of Node4/16/48)
PrefixByte(n, j, o) ==
  LET raw == IF j < MAX_PREFIX_LEN THEN n.prefix[j]
             ELSE IF (j - MAX_PREFIX_LEN) \in DOMAIN n.keys
                  THEN n.keys[j - MAX_PREFIX_LEN]
             ELSE Uninit
  IN IF raw = Uninit THEN o.ub ELSE raw

RECURSIVE PrefixScan(_, _, _, _, _, _)
PrefixScan(n, key, depth, i, iterTime, o) ==
  IF i >= iterTime THEN i
  ELSE IF PrefixByte(n, i, o) # At(key, depth + i, o.ob) THEN i
  ELSE PrefixScan(n, key, depth, i + 1, iterTime, o)

\* key.size() - depth is unsigned: it wraps to a huge number when depth
\* lies past the end of the key, so the minimum is then the other operand
commonPrefixLen(n, key, depth, o) ==
  LET a == Min(MAX_PREFIX_LEN, n.prefix_len)
      iterTime == IF depth > Len(key) THEN a ELSE Min(a, Len(key) - depth)
  IN PrefixScan(n, key, depth, 0, iterTime, o)

copyInnerNodeProps(dst, src) ==
  [dst EXCEPT !.children_count = src.children_count,
              !.prefix_len = src.prefix_len,
              !.prefix = src.prefix]

\* ------------------------------------------------------------------------
\* Node4
\* ------------------------------------------------------------------------
\* the index of the slot a linear scan of keys[0..children_count) finds,
\* or -1
RECURSIVE ScanEq(_, _, _, _)
ScanEq(keys, i, cnt, byte) ==
  IF i >= cnt \/ i \notin DOMAIN keys THEN -1
  ELSE IF keys[i] = byte THEN i
  ELSE ScanEq(keys, i + 1, cnt, byte)

\* the first index below children_count whose key is greater than byte,
\* or children_count
RECURSIVE ScanGt(_, _, _, _)
ScanGt(keys, i, cnt, byte) ==
  IF i >= cnt THEN i
  ELSE IF keys[i] > byte THEN i
  ELSE ScanGt(keys, i + 1, cnt, byte)

Node4_findChild(n, a, byte) ==
  LET i == ScanEq(n.keys, 0, n.children_count, byte)
  IN IF i >= 0 THEN ChildSlot(a, i) ELSE NULL_NODE

\* memmove(keys+idx+1, keys+idx, children_count-idx)
ShiftKeys(keys, idx, cnt) ==
  [j \in DOMAIN keys |-> IF j > idx /\ j <= cnt THEN keys[j - 1] ELSE keys[j]]

\* for (i = children_count-1; i > idx; i--) children[i] = children[i-1]
ShiftChildren(children, idx, cnt) ==
  [j \in DOMAIN children |->
     IF j > idx /\ j <= cnt - 1 THEN children[j - 1] ELSE children[j]]

\* the node after each statement of the sorted insertion shared by
\* Node4::addChild and Node16::addChild
SortedAddChildSteps(n, byte, child) ==
  LET idx == ScanGt(n.keys, 0, n.children_count, byte)
      n1 == [n EXCEPT !.keys = ShiftKeys(n.keys, idx, n.children_count)]
      n2 == [n1 EXCEPT !.children = ShiftChildren(n.children, idx, n.children_count)]
      n3 == [n2 EXCEPT !.keys[idx] = byte]
      n4 == [n3 EXCEPT !.children[idx] = child]
      n5 == [n4 EXCEPT !.children_count = (n.children_count + 1) % 256]
  IN <<n1, n2, n3, n4, n5>>

Node4_addChildSteps(n, byte, child) == SortedAddChildSteps(n, byte, child)

Node4_isFull(n) == n.children_count >= 4

\* std::copy of the whole keys array, a copy of all four child slots, then
\* the header
Node4_grow(n) ==
  LET fresh == makeNode16
      ks == [j \in DOMAIN fresh.keys |->
               IF j \in DOMAIN n.keys THEN n.keys[j] ELSE fresh.keys[j]]
      cs == [j \in DOMAIN fresh.children |->
               IF j \in DOMAIN n.children THEN n.children[j] ELSE fresh.children[j]]
  IN copyInnerNodeProps([fresh EXCEPT !.keys = ks, !.children = cs], n)

\* ------------------------------------------------------------------------
\* Node16
\* ------------------------------------------------------------------------
\* std::lower_bound over the whole 16-entry keys array, unused tail
\* included: the halving search of the standard library
RECURSIVE LowerBound(_, _, _, _)
LowerBound(keys, first, len, byte) ==
  IF len <= 0 THEN first
  ELSE LET half == len \div 2
           middle == first + half
       IN IF keys[middle] < byte
          THEN LowerBound(keys, middle + 1, len - half - 1, byte)
          ELSE LowerBound(keys, first, half, byte)

Node16_findChild(n, a, byte) ==
  LET target == LowerBound(n.keys, 0, Node16Cap, byte)
  IN IF target = Node16Cap THEN NULL_NODE
     ELSE IF n.keys[target] # byte THEN NULL_NODE
     ELSE ChildSlot(a, target)

Node16_addChildSteps(n, byte, child) == SortedAddChildSteps(n, byte, child)

Node16_isFull(n) == n.children_count >= 16

Node16_grow(n) ==
  LET fresh == makeNode48
      cnt == n.children_count
      \* new_node->keys[this->keys[i]] = i + 1, the last i winning
      ks == [b \in DOMAIN fresh.keys |->
               LET I == {i \in 0..(cnt - 1) : n.keys[i] = b}
               IN IF I = {} THEN 0
                  ELSE (CHOOSE i \in I : \A k \in I : k <= i) + 1]
      cs == [j \in DOMAIN fresh.children |->
               IF j < cnt THEN n.children[j] ELSE nullptr]
  IN copyInnerNodeProps([fresh EXCEPT !.keys = ks, !.children = cs], n)

\* ------------------------------------------------------------------------
\* Node48
\* ------------------------------------------------------------------------
Node48_findChild(n, a, byte) ==
  LET idx == n.keys[byte]
  IN IF idx > 0 THEN ChildSlot(a, idx - 1) ELSE NULL_NODE

\* while (children[idx] != nullptr) idx++
FirstNull(children) ==
  CHOOSE i \in DOMAIN children :
    /\ children[i] = nullptr
    /\ \A k \in DOMAIN children : k < i => children[k] # nullptr

Node48_addChildSteps(n, byte, child) ==
  LET idx == FirstNull(n.children)
      n1 == [n EXCEPT !.children[idx] = child]
      n2 == [n1 EXCEPT !.keys[byte] = idx + 1]
      n3 == [n2 EXCEPT !.children_count = (n.children_count + 1) % 256]
  IN <<n1, n2, n3>>

Node48_isFull(n) == n.children_count >= 48

Node48_grow(n) ==
  LET fresh == makeNode256
      cs == [b \in DOMAIN fresh.children |->
               IF n.keys[b] > 0 THEN n.children[n.keys[b] - 1] ELSE nullptr]
  IN copyInnerNodeProps([fresh EXCEPT !.children = cs], n)

\* ------------------------------------------------------------------------
\* Node256
\* ------------------------------------------------------------------------
Node256_addChildSteps(n, byte, child) ==
  LET n1 == [n EXCEPT !.children_count = (n.children_count + 1) % 256]
      n2 == [n1 EXCEPT !.children[byte] = child]
  IN <<n1, n2>>

Node256_findChild(n, a, byte) == ChildSlot(a, byte)

Node256_isFull(n) == FALSE

\* ------------------------------------------------------------------------
\* Virtual dispatch on the node type
\* ------------------------------------------------------------------------
findChild(n, a, byte) ==
  CASE n.type = "Node4" -> Node4_findChild(n, a, byte)
    [] n.type = "Node16" -> Node16_findChild(n, a, byte)
    [] n.type = "Node48" -> Node48_findChild(n, a, byte)
    [] n.type = "Node256" -> Node256_findChild(n, a, byte)

addChildSteps(n, byte, child) ==
  CASE n.type = "Node4" -> Node4_addChildSteps(n, byte, child)
    [] n.type = "Node16" -> Node16_addChildSteps(n, byte, child)
    [] n.type = "Node48" -> Node48_addChildSteps(n, byte, child)
    [] n.type = "Node256" -> Node256_addChildSteps(n, byte, child)

isFull(n) ==
  CASE n.type = "Node4" -> Node4_isFull(n)
    [] n.type = "Node16" -> Node16_isFull(n)
    [] n.type = "Node48" -> Node48_isFull(n)
    [] n.type = "Node256" -> Node256_isFull(n)

grow(n) ==
  CASE n.type = "Node4" -> Node4_grow(n)
    [] n.type = "Node16" -> Node16_grow(n)
    [] n.type = "Node48" -> Node48_grow(n)

\* ------------------------------------------------------------------------
\* Memory: the root slot of the tree, the heap and the allocator's stack
\* of freed cells
\* ------------------------------------------------------------------------
Last(sq) == sq[Len(sq)]

EmptyMem == [root |-> nullptr, heap |-> <<>>, free |-> <<>>]

\* NodeRef::load
Load(mem, slot) ==
  IF slot = NULL_NODE THEN nullptr
  ELSE IF slot = RootSlot THEN mem.root
  ELSE mem.heap[slot.n].children[slot.i]

\* art::replace: node.store(newNode)
replace(mem, slot, newNode) ==
  IF slot = RootSlot THEN [mem EXCEPT !.root = newNode]
  ELSE [mem EXCEPT !.heap[slot.n].children[slot.i] = newNode]

\* delete: the cell is returned to the allocator; pointers to it stay
delete(mem, a) ==
  [mem EXCEPT !.heap[a].freed = TRUE, !.free = Append(mem.free, a)]

\* operator new for a node of the class of `node`
Alloc(mem, node, o) ==
  LET cand == {i \in 1..Len(mem.free) : mem.heap[mem.free[i]].type = node.type}
  IN IF o.reuse /\ cand # {}
     THEN LET i == CHOOSE x \in cand : \A y \in cand : y <= x
              a == mem.free[i]
          IN [mem |-> [mem EXCEPT !.heap[a] = node,
                                  !.free = SubSeq(mem.free, 1, i - 1)
                                           \o SubSeq(mem.free, i + 1, Len(mem.free))],
              addr |-> a]
     ELSE [mem |-> [mem EXCEPT !.heap = Append(mem.heap, node)],
           addr |-> Len(mem.heap) + 1]

\* the memory after each of a sequence of states of the node at address a
NodeSteps(mem, a, nodes) ==
  [i \in 1..Len(nodes) |-> [mem EXCEPT !.heap[a] = nodes[i]]]

\* ------------------------------------------------------------------------
\* ART::searchRecursively
\* ------------------------------------------------------------------------
\* one activation: either a result, or the node and depth of the call it
\* makes
searchStep(mem, node, key, depth, o) ==
  IF node = nullptr
  THEN [done |-> TRUE, res |-> Absent, node |-> nullptr, depth |-> depth]
  ELSE LET n == mem.heap[node] IN
    IF n.freed /\ o.asan
    THEN [done |-> TRUE, res |-> Crash, node |-> node, depth |-> depth]
    ELSE IF n.type = "Leaf"
    THEN [done |-> TRUE,
          res |-> IF leafMatches(n, key, depth) THEN n.val ELSE Absent,
          node |-> node, depth |-> depth]
    ELSE LET d == depth + commonPrefixLen(n, key, depth, o)
             next == Load(mem, findChild(n, node, At(key, d, o.ob)))
         IN [done |-> FALSE, res |-> Absent, node |-> next, depth |-> d]

\* the recursion never returns when the pointers form a cycle; the process
\* then dies of stack exhaustion
RECURSIVE searchRecursively(_, _, _, _, _, _)
searchRecursively(mem, node, key, depth, o, fuel) ==
  LET st == searchStep(mem, node, key, depth, o)
  IN IF st.done THEN st.res
     ELSE IF fuel = 0 THEN Crash
     ELSE searchRecursively(mem, st.node, key, st.depth, o, fuel - 1)

\* ART::search
search(mem, key, o) ==
  searchRecursively(mem, mem.root, key, 0, o, Len(mem.heap) + 1)

\* ------------------------------------------------------------------------
\* ART::insertRecursively
\* ------------------------------------------------------------------------
\* the raw byte at offset j from the start of the prefix array
RawPrefix(n, j) ==
  IF j < MAX_PREFIX_LEN THEN n.prefix[j]
  ELSE IF (j - MAX_PREFIX_LEN) \in DOMAIN n.keys THEN n.keys[j - MAX_PREFIX_LEN]
  ELSE Uninit

\* a block of writes at offsets 0..cnt-1 from the start of the prefix
\* array, src[j] being the byte written at offset j; offsets past the
\* array land in the keys array that follows it
WritePrefix(n, cnt, src) ==
  [n EXCEPT
     !.prefix = [j \in DOMAIN n.prefix |-> IF j < cnt THEN src[j] ELSE n.prefix[j]],
     !.keys = [k \in DOMAIN n.keys |->
                 IF k + MAX_PREFIX_LEN < cnt THEN src[k + MAX_PREFIX_LEN]
                 ELSE n.keys[k]]]

\* for (i = depth; key[i] == key2[i]; i++): the index at which the loop
\* stops, or -1 when it runs past the end of both keys without stopping
RECURSIVE CommonRun(_, _, _, _)
CommonRun(key, key2, i, o) ==
  IF At(key, i, o.ob) # At(key2, i, o.ub) THEN i
  ELSE IF i >= Len(key) /\ i >= Len(key2) THEN -1
  ELSE CommonRun(key, key2, i + 1, o)

Result(mems, ret, crash) == [mems |-> mems, ret |-> ret, crash |-> crash]

\* The result carries the memory after each store of the call in program
\* order (the last one is the memory the call leaves behind), the value
\* returned, and whether the process died in the call.
RECURSIVE insertRecursively(_, _, _, _, _, _, _)
insertRecursively(mem, slot, key, leaf, depth, o, fuel) ==
  LET node == Load(mem, slot) IN
  IF node = nullptr
  THEN Result(<<replace(mem, slot, leaf)>>, TRUE, FALSE)
  ELSE
  LET n == mem.heap[node] IN
  IF (n.freed /\ o.asan) \/ fuel = 0
  THEN Result(<<>>, FALSE, TRUE)
  ELSE IF n.type = "Leaf"
  THEN
    IF leafMatchesOverrun(n, key, depth) /\ o.asan
    THEN Result(<<>>, FALSE, TRUE)
    ELSE IF ~leafMatchesOverrun(n, key, depth) /\ leafMatches(n, key, depth)
    THEN \* Key exists: the slot is overwritten, then the node the slot now
         \* holds is deleted
         LET m1 == replace(mem, slot, leaf)
             m2 == delete(m1, Load(m1, slot))
         IN Result(<<m1, m2>>, TRUE, FALSE)
    ELSE \* Split the leaf into a Node4
         LET a == Alloc(mem, makeNode4, o)
             key2 == n.key
             i == CommonRun(key, key2, depth, o)
             m == i - depth
         IN IF i = -1 \/ m > MAX_PREFIX_LEN + 2 * Node4Cap
            THEN Result(<<a.mem>>, FALSE, TRUE)
            ELSE
            LET n0 == a.mem.heap[a.addr]
                n1 == WritePrefix(n0, m, [j \in 0..(m - 1) |-> At(key, depth + j, o.ob)])
                n2 == [n1 EXCEPT !.prefix_len = m]
                s1 == addChildSteps(n2, At(key, depth, o.ob), leaf)
                s2 == addChildSteps(Last(s1), At(key2, depth, o.ub), node)
                ms == <<a.mem>> \o NodeSteps(a.mem, a.addr, <<n1, n2>> \o s1 \o s2)
            IN Result(Append(ms, replace(Last(ms), slot, a.addr)), FALSE, FALSE)
  ELSE
  LET p == commonPrefixLen(n, key, depth, o) IN
  IF p # n.prefix_len
  THEN \* Prefix mismatch: a new Node4 takes the slot
       LET a == Alloc(mem, makeNode4, o)
           n0 == a.mem.heap[a.addr]
           s1 == addChildSteps(n0, At(key, depth + p, o.ob), leaf)
           s2 == addChildSteps(Last(s1), PrefixByte(n, depth + p, o), node)
           n3 == [Last(s2) EXCEPT !.prefix_len = p]
           n4 == WritePrefix(n3, p, [j \in 0..(p - 1) |-> RawPrefix(n, j)])
           ms1 == <<a.mem>> \o NodeSteps(a.mem, a.addr, s1 \o s2 \o <<n3, n4>>)
           i1 == [n EXCEPT !.prefix_len = n.prefix_len - (p + 1)]
           i2 == WritePrefix(i1, i1.prefix_len,
                            [j \in 0..(i1.prefix_len - 1) |-> RawPrefix(i1, j + p + 1)])
           ms2 == ms1 \o NodeSteps(Last(ms1), node, <<i1, i2>>)
       IN Result(Append(ms2, replace(Last(ms2), slot, a.addr)), FALSE, FALSE)
  ELSE
  LET d == depth + n.prefix_len
      byte == At(key, d, o.ob)
      next == findChild(n, node, byte)
  IN
  IF Load(mem, next) # nullptr
  THEN insertRecursively(mem, next, key, leaf, d + 1, o, fuel - 1)
  ELSE IF isFull(n)
  THEN \* grow, store the new node in the slot, delete what the slot holds,
       \* then add the child to the new node
       LET a == Alloc(mem, grow(n), o)
           m1 == replace(a.mem, slot, a.addr)
           m2 == delete(m1, Load(m1, slot))
       IN IF o.asan
          THEN Result(<<a.mem, m1, m2>>, FALSE, TRUE)
          ELSE Result(<<a.mem, m1, m2>>
                        \o NodeSteps(m2, a.addr,
                                     addChildSteps(m2.heap[a.addr], byte, leaf)),
                      FALSE, FALSE)
  ELSE Result(NodeSteps(mem, node, addChildSteps(n, byte, leaf)), FALSE, FALSE)

\* the stores of a call, after the store that precedes it
After(m0, r) == Result(<<m0>> \o r.mems, r.ret, r.crash)

\* ART::insert from the leaf it has allocated (a) to the return of
\* insertRecursively
insertLeaf(a, key, o) ==
  After(a.mem,
        insertRecursively(a.mem, RootSlot, key, a.addr, 0, o, Len(a.mem.heap) + 1))

\* ART::insert up to the return of insertRecursively
insertSteps(mem, key, value, o) ==
  insertLeaf(Alloc(mem, makeLeafNode(key, value), o), key, o)

\* ------------------------------------------------------------------------
\* The oracle's components are drawn only where the state lets them show:
\* the allocator can hand back a cell only if it holds one, and a freed
\* node can be touched only if a cell was freed or, in an insert, a node
\* is about to grow.  A lookup allocates nothing.
\* ------------------------------------------------------------------------
NoneFreed(mem) == \A a \in 1..Len(mem.heap) : ~mem.heap[a].freed

NoneFull(mem) ==
  \A a \in 1..Len(mem.heap) :
    mem.heap[a].type # "Leaf" => ~isFull(mem.heap[a])

InsertOraclesAt(mem) ==
  {o \in Oracles :
     /\ (mem.free = <<>> => ~o.reuse)
     /\ ((NoneFreed(mem) /\ NoneFull(mem)) => ~o.asan)}

SearchOraclesAt(mem) ==
  {o \in Oracles : ~o.reuse /\ (NoneFreed(mem) => ~o.asan)}

\* every result the build can produce for search(key)
SearchOutcomes(mem, key) == {search(mem, key, o) : o \in SearchOraclesAt(mem)}

\* ------------------------------------------------------------------------
\* ART::insert on an ART object t = [root, heap, free, tree_size]
\* ------------------------------------------------------------------------
\* if (!updated) tree_size++, r being what insertRecursively did
ART_count(t, r) ==
  LET m == Last(r.mems)
  IN [root |-> m.root, heap |-> m.heap, free |-> m.free,
      tree_size |-> IF r.crash \/ r.ret THEN t.tree_size ELSE t.tree_size + 1,
      ret |-> r.ret, crash |-> r.crash, mems |-> r.mems]

ART_insert(t, key, value, o) ==
  ART_count(t, insertSteps([root |-> t.root, heap |-> t.heap, free |-> t.free],
                           key, value, o))

\* ------------------------------------------------------------------------
\* State
\* ------------------------------------------------------------------------
VARIABLES
  root,       \* ART::root
  heap,       \* the nodes allocated so far, by address
  free,       \* addresses the allocator got back, oldest first
  tree_size,  \* ART::tree_size
  crashed,    \* the process was aborted
  hist,       \* caller's record: the value last inserted for each key, or 0
  nops,       \* number of insert calls made
  nqry,       \* number of search and remove calls made
  last,       \* the call made last and what it returned
  other,      \* a second ART object with its own heap
  writer,     \* an insert call in progress, store by store
  reader      \* a search call in progress on another thread, node by node

vars == <<root, heap, free, tree_size, crashed, hist, nops, nqry, last,
          other, writer, reader>>

Mem == [root |-> root, heap |-> heap, free |-> free]
This == [root |-> root, heap |-> heap, free |-> free, tree_size |-> tree_size]

KeyBytes == 0..MaxKeyByte
\* the keys the caller looks up and removes, and the keys it inserts
Keys == SeqsUpTo(KeyBytes, 0, MaxKeyLen)
InsKeys == SeqsUpTo(KeyBytes, 1, MaxKeyLen)
AllKeys == Keys \cup SeqsUpTo(Bytes, 1, 1)

IsProperPrefix(k1, k2) ==
  Len(k1) < Len(k2) /\ SubSeq(k2, 1, Len(k1)) = k1

StoredIn(h) == {k \in DOMAIN h : h[k] # 0}
Stored == StoredIn(hist)

\* the caller's obligation: no key is a proper prefix of another
PrefixFree(key, ks) ==
  \A k2 \in ks : ~IsProperPrefix(key, k2) /\ ~IsProperPrefix(k2, key)

\* ART::size
size == tree_size

\* a call record: the call, its key, what it returned, and what the caller
\* knew when it made the call (whether the key was new to it, and size())
Call(op, key, res) ==
  [op |-> op, key |-> key, res |-> res,
   fresh |-> key \notin Stored, size0 |-> tree_size]
NoCall == [op |-> "none", key |-> <<>>, res |-> 0, fresh |-> FALSE, size0 |-> 0]
NoHist == [k \in AllKeys |-> 0]
NoTree == [root |-> nullptr, heap |-> <<>>, free |-> <<>>, tree_size |-> 0,
           crashed |-> FALSE, hist |-> NoHist]
WriterIdle == [active |-> FALSE]
ReaderIdle == [active |-> FALSE]

\* ART tree{}: value-initialised atomics
Init ==
  /\ root = nullptr
  /\ heap = <<>>
  /\ free = <<>>
  /\ tree_size = 0
  /\ crashed = FALSE
  /\ hist = NoHist
  /\ nops = 0
  /\ nqry = 0
  /\ last = NoCall
  /\ other = NoTree
  /\ writer = WriterIdle
  /\ reader = ReaderIdle

\* the tree after ART::insert, t being what the call did
Inserted(key, value, t) ==
  /\ root' = t.root
  /\ heap' = t.heap
  /\ free' = t.free
  /\ tree_size' = t.tree_size
  /\ crashed' = t.crash
  /\ hist' = IF t.crash THEN hist ELSE [hist EXCEPT ![key] = value]
  /\ last' = Call("insert", key,
                   IF t.crash THEN Crash ELSE IF t.ret THEN 1 ELSE 0)

\* ART::insert
Insert(key, value, o) ==
  /\ ~crashed
  /\ Inserted(key, value, ART_insert(This, key, value, o))
  /\ nops' = nops + 1
  /\ UNCHANGED <<nqry, other, writer, reader>>

\* the caller after ART::search has returned r
Searched(key, r) ==
  /\ crashed' = (r = Crash)
  /\ last' = Call("search", key, r)

\* ART::search
Search(key, o) ==
  /\ ~crashed
  /\ Searched(key, search(Mem, key, o))
  /\ nqry' = nqry + 1
  /\ UNCHANGED <<root, heap, free, tree_size, hist, nops, other, writer, reader>>

\* a remove that counts the entry down without looking the key up
RemoveUnchecked(key) ==
  /\ ~crashed
  /\ tree_size' = tree_size - 1
  /\ last' = Call("remove", key, 0)
  /\ nqry' = nqry + 1
  /\ UNCHANGED <<root, heap, free, crashed, hist, nops, other, writer, reader>>

\* ART::remove: the body is empty
Remove(key) ==
  /\ ~crashed
  /\ last' = Call("remove", key, 0)
  /\ nqry' = nqry + 1
  /\ UNCHANGED <<root, heap, free, tree_size, crashed, hist, nops,
                 other, writer, reader>>

\* ------------------------------------------------------------------------
\* The caller: it builds the tree with at most maxOps inserts of keys of K
\* with values of V, keeping its key set prefix-free, and then makes at most
\* maxQry lookups and removals.
\* ------------------------------------------------------------------------
InsertCall(K, V, maxOps) ==
  /\ nops < maxOps
  /\ nqry = 0
  /\ \E key \in K, value \in V, o \in InsertOraclesAt(Mem) :
       /\ PrefixFree(key, Stored)
       /\ Insert(key, value, o)

\* as InsertCall, but no key is inserted twice
InsertNewCall(K, V, maxOps) ==
  /\ nops < maxOps
  /\ nqry = 0
  /\ \E key \in K \ Stored, value \in V, o \in InsertOraclesAt(Mem) :
       /\ PrefixFree(key, Stored)
       /\ Insert(key, value, o)

SearchCall(K, maxQry) ==
  /\ nqry < maxQry
  /\ \E key \in K, o \in SearchOraclesAt(Mem) : Search(key, o)

RemoveCall(K, maxQry) ==
  /\ nqry < maxQry
  /\ \E key \in K : Remove(key)

Next ==
  \/ InsertCall(InsKeys, Vals, MaxOps)
  \/ SearchCall(Keys, MaxQueries)
  \/ RemoveCall(Keys, MaxQueries)

Spec == Init /\ [][Next]_vars

\* runs in which every insert is of a new key
NextDistinct ==
  \/ InsertNewCall(InsKeys, Vals, MaxOps)
  \/ SearchCall(Keys, MaxQueries)
  \/ RemoveCall(Keys, MaxQueries)

SpecDistinct == Init /\ [][NextDistinct]_vars

\* short runs over distinct one-byte keys, all given the same value, for the
\* claims about remove
RmKeys == SeqsUpTo(Bytes, 1, 1)

NextRemove ==
  \/ InsertNewCall(RmKeys, {1}, RmOps)
  \/ SearchCall(RmKeys, MaxQueries)
  \/ RemoveCall(RmKeys, MaxQueries)

SpecRemove == Init /\ [][NextRemove]_vars

\* ------------------------------------------------------------------------
\* Two ART objects fed the same pairs in different orders: every pair the
\* first tree was given is given to the second one once, in any order.
\* ------------------------------------------------------------------------
OtherMem == [root |-> other.root, heap |-> other.heap, free |-> other.free]

InsertedOther(key, value, t) ==
  other' = [root |-> t.root, heap |-> t.heap, free |-> t.free,
            tree_size |-> t.tree_size, crashed |-> t.crash,
            hist |-> IF t.crash THEN other.hist
                     ELSE [other.hist EXCEPT ![key] = value]]

InsertOther(key, value, o) ==
  /\ ~other.crashed
  /\ InsertedOther(key, value, ART_insert(other, key, value, o))
  /\ UNCHANGED <<root, heap, free, tree_size, crashed, hist, nops, nqry, last,
                 writer, reader>>

InsertOtherCall ==
  \E key \in Stored \ StoredIn(other.hist), o \in InsertOraclesAt(OtherMem) :
    InsertOther(key, hist[key], o)

OrdKeys == SeqsUpTo(KeyBytes, 1, OrdKeyLen)

NextOrder ==
  \/ InsertNewCall(OrdKeys, Vals, OrdOps)
  \/ InsertOtherCall

SpecOrder == Init /\ [][NextOrder]_vars

\* ------------------------------------------------------------------------
\* One-byte keys over the whole byte range in use: a single inner node
\* under the root fills up and grows
\* ------------------------------------------------------------------------
GrowKeys == SeqsUpTo(Bytes, 1, 1)

NextGrow == InsertNewCall(GrowKeys, Vals, GrowOps)

SpecGrow == Init /\ [][NextGrow]_vars

\* ------------------------------------------------------------------------
\* One writer and one reader.  The tree is first built call by call; then
\* one insert runs store by store while a search on another thread walks
\* the tree node by node.  The pairs the tree is built from carry the value
\* 1; the writer's pair has a key not inserted before and the value 2.
\* ------------------------------------------------------------------------
\* the writer enters ART::insert
BeginInsert(key, value, o) ==
  /\ ~crashed
  /\ ~writer.active
  /\ writer' = [active |-> TRUE, done |-> FALSE, key |-> key, value |-> value,
                run |-> ART_insert(This, key, value, o), pos |-> 0, pre |-> Mem]
  /\ UNCHANGED <<root, heap, free, tree_size, crashed, hist, nops, nqry, last,
                 other, reader>>

\* the writer's next store
WriterStep ==
  /\ ~crashed
  /\ writer.active
  /\ ~writer.done
  /\ writer.pos < Len(writer.run.mems)
  /\ LET m == writer.run.mems[writer.pos + 1]
     IN /\ root' = m.root
        /\ heap' = m.heap
        /\ free' = m.free
  /\ writer' = [writer EXCEPT !.pos = writer.pos + 1]
  /\ UNCHANGED <<tree_size, crashed, hist, nops, nqry, last, other, reader>>

\* insertRecursively has returned (or the process died in it): the counter
\* is updated and ART::insert returns
WriterReturn ==
  /\ ~crashed
  /\ writer.active
  /\ ~writer.done
  /\ writer.pos = Len(writer.run.mems)
  /\ tree_size' = writer.run.tree_size
  /\ crashed' = writer.run.crash
  /\ hist' = IF writer.run.crash THEN hist
             ELSE [hist EXCEPT ![writer.key] = writer.value]
  /\ nops' = nops + 1
  /\ last' = Call("insert", writer.key,
                   IF writer.run.crash THEN Crash
                   ELSE IF writer.run.ret THEN 1 ELSE 0)
  /\ writer' = [writer EXCEPT !.done = TRUE]
  /\ UNCHANGED <<root, heap, free, nqry, other, reader>>

\* the memory the writer's insert leaves behind
WriterPost == Last(writer.run.mems)

\* the node at address a is in neither the state the insert found it in
\* nor the state the insert leaves it in
TornAt(a) ==
  /\ heap[a] # WriterPost.heap[a]
  /\ (a > Len(writer.pre.heap) \/ heap[a] # writer.pre.heap[a])

\* the reader enters ART::search and loads the root slot
BeginSearch(key, o) ==
  /\ ~crashed
  /\ writer.active
  /\ ~writer.done
  /\ ~reader.active
  /\ reader' = [active |-> TRUE, done |-> FALSE, key |-> key, o |-> o,
                node |-> root, depth |-> 0, res |-> Absent, torn |-> FALSE,
                calls |-> 0]
  /\ UNCHANGED <<root, heap, free, tree_size, crashed, hist, nops, nqry, last,
                 other, writer>>

\* one activation of searchRecursively on the reader's thread
ReaderStep ==
  /\ ~crashed
  /\ reader.active
  /\ ~reader.done
  /\ LET st == searchStep(Mem, reader.node, reader.key, reader.depth, reader.o)
         overrun == ~st.done /\ reader.calls > Len(heap)
         res == IF overrun THEN Crash ELSE st.res
     IN /\ reader' = [reader EXCEPT
                        !.done = st.done \/ overrun,
                        !.res = res,
                        !.node = st.node,
                        !.depth = st.depth,
                        !.calls = reader.calls + 1,
                        !.torn = reader.torn
                                 \/ (reader.node # nullptr /\ TornAt(reader.node))]
        /\ crashed' = ((st.done \/ overrun) /\ res = Crash)
  /\ UNCHANGED <<root, heap, free, tree_size, hist, nops, nqry, last, other, writer>>

ConcKeys == SeqsUpTo(Bytes, 1, ConcKeyLen)

NextConc ==
  \/ (~writer.active /\ InsertNewCall(ConcKeys, {1}, ConcOps))
  \/ \E key \in ConcKeys \ Stored, value \in {2}, o \in InsertOraclesAt(Mem) :
       /\ PrefixFree(key, Stored)
       /\ BeginInsert(key, value, o)
  \/ WriterStep
  \/ WriterReturn
  \/ (writer.active
      /\ \E key \in ConcKeys, o \in SearchOraclesAt(WriterPost) : BeginSearch(key, o))
  \/ ReaderStep

SpecConc == Init /\ [][NextConc]_vars

\* ------------------------------------------------------------------------
\* Derived views of the state
\* ------------------------------------------------------------------------
MemNext == [root |-> root', heap |-> heap', free |-> free']

\* the addresses held by the child slots of a node
ChildrenOf(n) ==
  IF n.type = "Leaf" THEN {}
  ELSE {n.children[i] : i \in DOMAIN n.children} \ {nullptr}

\* the addresses reachable from the root slot
RECURSIVE ReachFrom(_, _, _)
ReachFrom(mem, frontier, seen) ==
  IF frontier = {} THEN seen
  ELSE LET nxt == (UNION {ChildrenOf(mem.heap[a]) : a \in frontier}) \ seen
       IN ReachFrom(mem, nxt, seen \cup nxt)

Reach(mem) ==
  IF mem.root = nullptr THEN {} ELSE ReachFrom(mem, {mem.root}, {mem.root})

ReachableLeaves(mem) == {a \in Reach(mem) : mem.heap[a].type = "Leaf"}

\* every insert so far was of a key not inserted before, and none died
DistinctInserts == ~crashed /\ nops = Cardinality(Stored)

\* ------------------------------------------------------------------------
\* Claims
\* ------------------------------------------------------------------------

\* C1: after inserting pairs with distinct keys, none a proper prefix of
\* another, in any order into an empty tree, search(k) returns exactly the
\* value inserted for k, for every inserted key k.
C1_RoundTrip ==
  DistinctInserts =>
    \A k \in Stored : SearchOutcomes(Mem, k) = {hist[k]}

\* C2: size() equals the number of distinct keys inserted, which equals the
\* number of leaves reachable from the root; it is 0 on a fresh tree and 1
\* after the first insert.
C2_SizeCounter ==
  ~crashed =>
    /\ size = Cardinality(Stored)
    /\ size = Cardinality(ReachableLeaves(Mem))

\* C3: inserting (k, v1) and then (k, v2) yields search(k) = v2, and size()
\* is incremented exactly once across the two inserts.
C3_UpdateSemantics ==
  [][(/\ last.op = "insert" /\ last.fresh /\ last.res # Crash
      /\ last'.op = "insert" /\ nops' = nops + 1 /\ last'.key = last.key
      /\ ~crashed')
       => /\ SearchOutcomes(MemNext, last'.key) = {hist'[last'.key]}
          /\ tree_size' = last.size0 + 1]_vars

\* C4: after any sequence of inserts, search(k') is absent for every key k'
\* that was never inserted, whether it shares a prefix with, is shorter
\* than or is longer than the stored keys.
C4_NoFalseHits ==
  ~crashed =>
    \A k \in Keys \ Stored : SearchOutcomes(Mem, k) = {Absent}

\* C10: after any sequence of inserts the root slot and every non-null
\* child slot reachable from it reference a node that has not been freed
\* (a value update frees the replaced leaf and a grow frees the old smaller
\* node, never the node just written into the slot).
C10_NoDanglingPointers ==
  \A a \in Reach(Mem) : ~heap[a].freed

\* a key the tree holds: the caller inserted it and search returns its value
Present(k) == k \in Stored /\ SearchOutcomes(Mem, k) = {hist[k]}

RemoveStep == last'.op = "remove" /\ nqry' = nqry + 1

\* C6: if key k is stored, then after remove(k) search(k) is absent, size()
\* is one less than before, and every other stored key still returns its
\* value.
C6_RemovePresent ==
  [][(RemoveStep /\ Present(last'.key))
       => /\ SearchOutcomes(MemNext, last'.key) = {Absent}
          /\ tree_size' = tree_size - 1
          /\ \A k \in Stored \ {last'.key} :
               SearchOutcomes(MemNext, k) = SearchOutcomes(Mem, k)]_vars

\* C7: remove of a key that is not stored is a no-op: size() and the search
\* result of every key are the same after the call as before it.
C7_RemoveAbsentNoOp ==
  [][(RemoveStep /\ last'.key \notin Stored)
       => /\ tree_size' = tree_size
          /\ \A k \in RmKeys \cup {<<>>} :
               SearchOutcomes(MemNext, k) = SearchOutcomes(Mem, k)]_vars

\* C7 witness: an absent key was removed from a tree that holds other keys
\* and counts them
C7_Witness ==
  /\ last.op = "remove"
  /\ last.key \notin Stored
  /\ tree_size > 0
  /\ \E k \in Stored : Present(k)

\* C5: two trees given the same pairs with distinct keys, in any two
\* orders, return the same search result for every key.
C5_OrderIndependence ==
  (hist = other.hist /\ ~crashed /\ ~other.crashed) =>
    \A k \in Keys : SearchOutcomes(Mem, k) = SearchOutcomes(OtherMem, k)

\* the (key byte, child) pairs an inner node holds
Pairs(n) ==
  CASE n.type \in {"Node4", "Node16"} ->
         {<<n.keys[i], n.children[i]>> :
            i \in {j \in DOMAIN n.keys : j < n.children_count}}
    [] n.type = "Node48" ->
         {<<b, n.children[n.keys[b] - 1]>> : b \in {c \in Bytes : n.keys[c] > 0}}
    [] n.type = "Node256" ->
         {<<b, n.children[b]>> : b \in {c \in Bytes : n.children[c] # nullptr}}
    [] OTHER -> {}

Bigger(t) ==
  CASE t = "Node4" -> "Node16"
    [] t = "Node16" -> "Node48"
    [] t = "Node48" -> "Node256"
    [] OTHER -> "none"

InsertStep == last'.op = "insert" /\ nops' = nops + 1

\* the insert just made added a child under a byte the inner node in the
\* root slot did not hold (the keys are one byte long, so that node is the
\* only inner node)
AddsNewChildAtRoot ==
  /\ InsertStep
  /\ root # nullptr
  /\ heap[root].type # "Leaf"
  /\ ~heap[root].freed
  /\ heap[root].prefix_len = 0
  /\ Len(last'.key) = 1
  /\ \A pr \in Pairs(heap[root]) : pr[1] # last'.key[1]

\* C8: when an insert adds a new child byte to an inner node that is full
\* (4, 16 or 48 children), the parent slot afterwards holds the next larger
\* variant with all previous children plus the new one; an insert into a
\* node that is not full leaves its variant unchanged.
C8_NodeTypeAdaptivity ==
  [][AddsNewChildAtRoot =>
       IF isFull(heap[root])
       THEN /\ ~crashed'
            /\ root' # nullptr
            /\ ~heap'[root'].freed
            /\ heap'[root'].type = Bigger(heap[root].type)
            /\ \E c \in 1..Len(heap') :
                 /\ heap'[c].type = "Leaf"
                 /\ heap'[c].key = last'.key
                 /\ Pairs(heap'[root'])
                      = Pairs(heap[root]) \cup {<<last'.key[1], c>>}
       ELSE /\ ~crashed'
            /\ heap'[root'].type = heap[root].type]_vars

ReaderDone == reader.active /\ reader.done

\* C9: a search that runs interleaved with the steps of one in-flight
\* insert never observes a torn node, so it returns either the answer of
\* the tree before the insert or the answer of the tree after it.
C9_PreOrPost ==
  ReaderDone =>
    reader.res \in SearchOutcomes(writer.pre, reader.key)
                     \cup SearchOutcomes(WriterPost, reader.key)

\* the Node4 and Node16 nodes of the tree
SortedNodes(mem) ==
  {a \in Reach(mem) : mem.heap[a].type \in {"Node4", "Node16"} /\ ~mem.heap[a].freed}

\* C11: after any sequence of inserts, in every Node4 and Node16 the bytes
\* keys[0..children_count) are strictly ascending, without duplicates, and
\* every children[i] below children_count is a non-null child.
C11_SortedKeys ==
  ~crashed =>
    \A a \in SortedNodes(Mem) :
      /\ \A i, j \in 0..(heap[a].children_count - 1) :
           i < j => heap[a].keys[i] < heap[a].keys[j]
      /\ \A i \in 0..(heap[a].children_count - 1) :
           heap[a].children[i] # nullptr

\* C12: after any sequence of inserts, repeated inserts of a key included,
\* no two leaves reachable from the root hold equal keys.
C12_LeafUniqueness ==
  ~crashed =>
    \A a, b \in ReachableLeaves(Mem) :
      (a # b /\ ~heap[a].freed /\ ~heap[b].freed) => heap[a].key # heap[b].key

\* the leaves below the node at address a
LeavesBelow(mem, a) ==
  {l \in ReachFrom(mem, {a}, {a}) : mem.heap[l].type = "Leaf"}

\* node a holds its prefix: every leaf below it carries the stored prefix
\* bytes at positions d .. d + prefix_len - 1, and every leaf below its
\* child under byte b carries b at position d + prefix_len
HoldsPrefix(mem, a, d) ==
  LET n == mem.heap[a]
  IN /\ \A l \in LeavesBelow(mem, a) :
          \A j \in 0..(n.prefix_len - 1) :
            /\ d + j < Len(mem.heap[l].key)
            /\ j < MAX_PREFIX_LEN => n.prefix[j] = mem.heap[l].key[d + j + 1]
     /\ \A pr \in Pairs(n) :
          pr[2] # nullptr =>
            \A l \in LeavesBelow(mem, pr[2]) :
              /\ d + n.prefix_len < Len(mem.heap[l].key)
              /\ mem.heap[l].key[d + n.prefix_len + 1] = pr[1]

\* the prefix holds at the inner node a, reached at depth d, and at every
\* inner node below it
RECURSIVE PrefixConsistentFrom(_, _, _, _)
PrefixConsistentFrom(mem, a, d, fuel) ==
  IF a = nullptr \/ fuel = 0 THEN TRUE
  ELSE IF mem.heap[a].type = "Leaf" \/ mem.heap[a].freed THEN TRUE
  ELSE /\ HoldsPrefix(mem, a, d)
       /\ \A c \in ChildrenOf(mem.heap[a]) :
            PrefixConsistentFrom(mem, c, d + mem.heap[a].prefix_len + 1, fuel - 1)

\* C13: after any sequence of inserts, for every inner node reached from
\* the root at traversal depth d, all leaves below it agree with its stored
\* prefix on positions d .. d + prefix_len - 1, and each child sits under
\* the byte its leaves carry at position d + prefix_len.
C13_PrefixConsistency ==
  (~crashed /\ NoneFreed(Mem)) =>
    PrefixConsistentFrom(Mem, root, 0, Len(heap))

\* where the descent of insertRecursively ends for key: the slot whose node
\* is replaced or extended, and the depth at which the call reaches it
RECURSIVE insertSite(_, _, _, _, _, _)
insertSite(mem, slot, key, depth, o, fuel) ==
  LET node == Load(mem, slot) IN
  IF node = nullptr \/ fuel = 0 THEN [slot |-> slot, depth |-> depth]
  ELSE IF mem.heap[node].type = "Leaf" THEN [slot |-> slot, depth |-> depth]
  ELSE IF commonPrefixLen(mem.heap[node], key, depth, o) # mem.heap[node].prefix_len
  THEN [slot |-> slot, depth |-> depth]
  ELSE IF Load(mem, findChild(mem.heap[node], node,
                              At(key, depth + mem.heap[node].prefix_len, o.ob))) = nullptr
  THEN [slot |-> slot, depth |-> depth]
  ELSE insertSite(mem,
                  findChild(mem.heap[node], node,
                            At(key, depth + mem.heap[node].prefix_len, o.ob)),
                  key, depth + mem.heap[node].prefix_len + 1, o, fuel - 1)

\* the sites of the insert of key over the values the bytes read outside
\* the key and in unwritten prefix cells can take
InsertSites(mem, key) ==
  {insertSite(mem, RootSlot, key, 0, o, Len(mem.heap) + 1) : o \in InsertOraclesAt(mem)}

\* the number of positions from i on at which both keys have the same byte
RECURSIVE CommonLen(_, _, _)
CommonLen(k1, k2, i) ==
  IF i < Len(k1) /\ i < Len(k2) /\ k1[i + 1] = k2[i + 1]
  THEN 1 + CommonLen(k1, k2, i + 1)
  ELSE 0

\* the insert just made reached, at site s, a leaf whose key differs from
\* the new key, and both keys have a byte after their common run
SplitsLeafAt(s) ==
  /\ InsertStep
  /\ NoneFreed(Mem)
  /\ ~crashed'
  /\ InsertSites(Mem, last'.key) = {s}
  /\ Load(Mem, s.slot) # nullptr
  /\ heap[Load(Mem, s.slot)].type = "Leaf"
  /\ heap[Load(Mem, s.slot)].key # last'.key
  /\ s.depth + CommonLen(heap[Load(Mem, s.slot)].key, last'.key, s.depth)
       < Min(Len(heap[Load(Mem, s.slot)].key), Len(last'.key))

\* the slot holds a Node4 with prefix_len m whose children are exactly the
\* old leaf L under its byte at depth + m and a leaf for key under key's
\* byte at depth + m
SplitNode(mem, slot, L, key, depth, m) ==
  /\ Load(mem, slot) # nullptr
  /\ mem.heap[Load(mem, slot)].type = "Node4"
  /\ mem.heap[Load(mem, slot)].prefix_len = m
  /\ mem.heap[Load(mem, slot)].children_count = 2
  /\ \E c \in 1..Len(mem.heap) :
       /\ mem.heap[c].type = "Leaf"
       /\ mem.heap[c].key = key
       /\ c # L
       /\ Pairs(mem.heap[Load(mem, slot)])
            = {<<mem.heap[L].key[depth + m + 1], L>>, <<key[depth + m + 1], c>>}

\* C14: when insert reaches a leaf L at depth `depth` whose key differs from
\* the new key, m being the length of the common run of the two keys from
\* depth, the slot afterwards holds a Node4 with prefix_len = m and exactly
\* two children, L under L.key[depth + m] and the new leaf under
\* key[depth + m], and the call counts the key as inserted.
C14_LeafSplit ==
  [][\A s \in InsertSites(Mem, last'.key) :
       SplitsLeafAt(s) =>
         /\ SplitNode(MemNext, s.slot, Load(Mem, s.slot), last'.key, s.depth,
                      CommonLen(heap[Load(Mem, s.slot)].key, last'.key, s.depth))
         /\ tree_size' = tree_size + 1]_vars

\* the lengths commonPrefixLen can return for key at site s
SitePrefixLens(mem, s, key) ==
  {commonPrefixLen(mem.heap[Load(mem, s.slot)], key, s.depth, o) :
     o \in InsertOraclesAt(mem)}

\* the insert just made reached, at site s, an inner node whose stored
\* prefix matches the key on its first p bytes only, p < prefix_len
SplitsPrefixAt(s, p) ==
  /\ InsertStep
  /\ NoneFreed(Mem)
  /\ ~crashed'
  /\ InsertSites(Mem, last'.key) = {s}
  /\ Load(Mem, s.slot) # nullptr
  /\ heap[Load(Mem, s.slot)].type # "Leaf"
  /\ SitePrefixLens(Mem, s, last'.key) = {p}
  /\ p < heap[Load(Mem, s.slot)].prefix_len
  /\ heap[Load(Mem, s.slot)].prefix_len <= MAX_PREFIX_LEN
  /\ s.depth + p < Len(last'.key)

\* the slot holds a new Node4 with prefix_len p and the first p bytes of
\* the old prefix of I, with I under the old prefix byte at p and a leaf for
\* key under key's byte at depth + p; I keeps the rest of its old prefix
PrefixSplitNode(mem, slot, I, old, key, depth, p) ==
  /\ Load(mem, slot) # nullptr
  /\ Load(mem, slot) # I
  /\ mem.heap[Load(mem, slot)].type = "Node4"
  /\ mem.heap[Load(mem, slot)].prefix_len = p
  /\ \A j \in 0..(p - 1) : mem.heap[Load(mem, slot)].prefix[j] = old.prefix[j]
  /\ \E c \in 1..Len(mem.heap) :
       /\ mem.heap[c].type = "Leaf"
       /\ mem.heap[c].key = key
       /\ Pairs(mem.heap[Load(mem, slot)])
            = {<<old.prefix[p], I>>, <<key[depth + p + 1], c>>}
  /\ mem.heap[I].prefix_len = old.prefix_len - (p + 1)
  /\ \A j \in 0..(old.prefix_len - p - 2) :
       mem.heap[I].prefix[j] = old.prefix[j + p + 1]

\* C15: when insert reaches, at any depth, an inner node I whose stored
\* prefix matches the key only on its first p < prefix_len bytes, the slot
\* afterwards holds a new Node4 with prefix_len = p and the first p bytes of
\* I's old prefix, I under the old prefix byte at p and the new leaf under
\* key[depth + p]; I's prefix is the old one shifted left by p + 1.
C15_PrefixMismatchSplit ==
  [][\A s \in InsertSites(Mem, last'.key) :
       \A p \in 0..MAX_PREFIX_LEN :
         SplitsPrefixAt(s, p) =>
           PrefixSplitNode(MemNext, s.slot, Load(Mem, s.slot),
                           heap[Load(Mem, s.slot)], last'.key, s.depth, p)]_vars

\* ------------------------------------------------------------------------
\* One inner node driven through its own interface: a Node4 is made, gets
\* children under bytes it does not hold yet, is asked for children, and is
\* grown when it is full.  The root slot refers to the node; every child is
\* a leaf made for the byte.
\* ------------------------------------------------------------------------
\* makeNode4()
InitNode ==
  /\ root = 1
  /\ heap = <<makeNode4>>
  /\ free = <<>>
  /\ tree_size = 0
  /\ crashed = FALSE
  /\ hist = NoHist
  /\ nops = 0
  /\ nqry = 0
  /\ last = NoCall
  /\ other = NoTree
  /\ writer = WriterIdle
  /\ reader = ReaderIdle

\* the bytes the node was given a child under
Held == {b \in Bytes : hist[<<b>>] # 0}

\* node->addChild(byte, child), child being a new leaf
NodeAddChild(byte) ==
  /\ nops < NodeOps
  /\ ~isFull(heap[root])
  /\ byte \notin Held
  /\ heap' = Append([heap EXCEPT ![root] =
                       Last(addChildSteps(heap[root], byte, Len(heap) + 1))],
                    makeLeafNode(<<byte>>, 1))
  /\ hist' = [hist EXCEPT ![<<byte>>] = 1]
  /\ nops' = nops + 1
  /\ last' = Call("addChild", <<byte>>, Len(heap) + 1)
  /\ UNCHANGED <<root, free, tree_size, crashed, nqry, other, writer, reader>>

\* node->findChild(byte): the call returns a slot, the caller loads it
NodeFindChild(byte) ==
  /\ last' = Call("findChild", <<byte>>, Load(Mem, findChild(heap[root], root, byte)))
  /\ UNCHANGED <<root, heap, free, tree_size, crashed, hist, nops, nqry,
                 other, writer, reader>>

\* if (inner_node->isFull()) inner_node = inner_node->grow()
NodeGrow ==
  /\ isFull(heap[root])
  /\ heap[root].type \in {"Node4", "Node16", "Node48"}
  /\ heap' = Append(heap, grow(heap[root]))
  /\ root' = Len(heap) + 1
  /\ last' = Call("grow", <<>>, Len(heap) + 1)
  /\ UNCHANGED <<free, tree_size, crashed, hist, nops, nqry, other, writer, reader>>

NextNode ==
  \/ \E byte \in Bytes : NodeAddChild(byte)
  \/ \E byte \in Bytes : NodeFindChild(byte)
  \/ NodeGrow

SpecNode == InitNode /\ [][NextNode]_vars

\* the child the node in the root slot returns for byte
ChildAt(mem, byte) == Load(mem, findChild(mem.heap[mem.root], mem.root, byte))

\* the bytes among keys[0..children_count) of a Node4 or Node16
KeysOf(n) == {n.keys[i] : i \in {j \in DOMAIN n.keys : j < n.children_count}}

AddChildStep == last'.op = "addChild" /\ nops' = nops + 1

\* C16: for a Node4 or Node16 that is not full and does not hold byte b,
\* after add_child(b, child) find_child(b) returns child, find_child(b')
\* returns the same child as before for every byte b' held before, and
\* children_count is one more.
C16_AddChildKeepsOthers ==
  [][(/\ AddChildStep
      /\ heap[root].type \in {"Node4", "Node16"}
      /\ ~isFull(heap[root])
      /\ last'.key[1] \notin KeysOf(heap[root]))
       => /\ ChildAt(MemNext, last'.key[1]) = last'.res
          /\ \A b \in KeysOf(heap[root]) : ChildAt(MemNext, b) = ChildAt(Mem, b)
          /\ heap'[root'].children_count = heap[root].children_count + 1]_vars

\* C17: for a Node16 with a child count c in 5..16 and any byte b,
\* find_child(b) returns the child stored with b when b is among
\* keys[0..c) and absent otherwise, as the scan of Node4 does; the slots at
\* index >= c have no influence.
C17_Node16FindChild ==
  (/\ last.op = "findChild"
   /\ heap[root].type = "Node16"
   /\ heap[root].children_count \in 5..Node16Cap)
    => last.res = Load(Mem, Node4_findChild(heap[root], root, last.key[1]))

GrowStep == last'.op = "grow" /\ root' # root

\* C18: the node returned by grow() has the children_count, prefix_len and
\* prefix bytes of the original, and find_child returns for every byte the
\* child (or absent) it returns on the original.
C18_GrowPreservesContent ==
  [][GrowStep
       => /\ heap'[root'].children_count = heap[root].children_count
          /\ heap'[root'].prefix_len = heap[root].prefix_len
          /\ heap'[root'].prefix = heap[root].prefix
          /\ \A b \in Bytes : ChildAt(MemNext, b) = ChildAt(Mem, b)]_vars

\* the index of the key byte an activation of searchRecursively at an
\* inner node reads for findChild(key[depth]), after depth += commonPrefixLen
keyIndexRead(mem, node, key, depth, o) ==
  depth + commonPrefixLen(mem.heap[node], key, depth, o)

\* the search of key from node at depth keeps to the key: at every inner
\* node it visits the key byte it reads is a byte of the key, a depth at or
\* past the end of the key gives absent, and the call it makes for the
\* child is one byte deeper
RECURSIVE SearchInsideKey(_, _, _, _, _, _)
SearchInsideKey(mem, node, key, depth, o, fuel) ==
  IF searchStep(mem, node, key, depth, o).done \/ fuel = 0 THEN TRUE
  ELSE /\ keyIndexRead(mem, node, key, depth, o) >= Len(key)
            => searchRecursively(mem, node, key, depth, o, fuel) = Absent
       /\ keyIndexRead(mem, node, key, depth, o) < Len(key)
       /\ searchStep(mem, node, key, depth, o).depth
            = keyIndexRead(mem, node, key, depth, o) + 1
       /\ SearchInsideKey(mem, searchStep(mem, node, key, depth, o).node, key,
                          searchStep(mem, node, key, depth, o).depth, o, fuel - 1)

\* C19: at an inner node, after advancing depth by the common prefix
\* length, search returns absent when depth >= len(key), never reads a key
\* byte at an index >= len(key), and advances depth by one for each child
\* edge it follows.
C19_SearchInsideKey ==
  (last.op = "search" /\ NoneFreed(Mem)) =>
    \A o \in SearchOraclesAt(Mem) :
      SearchInsideKey(Mem, root, last.key, 0, o, Len(heap) + 1)

\* ------------------------------------------------------------------------
\* One leaf asked whether it matches: the leaf is made for any key, and
\* leafMatches is called with any key and any depth inside that key.
\* ------------------------------------------------------------------------
\* makeLeafNode(key, value)
InitLeaf ==
  /\ root = 1
  /\ heap \in {<<makeLeafNode(key, 1)>> : key \in Keys}
  /\ free = <<>>
  /\ tree_size = 0
  /\ crashed = FALSE
  /\ hist = NoHist
  /\ nops = 0
  /\ nqry = 0
  /\ last = NoCall
  /\ other = NoTree
  /\ writer = WriterIdle
  /\ reader = ReaderIdle

\* leaf->leafMatches(key, depth)
LeafMatchesCall(key, depth) ==
  /\ last' = [op |-> "leafMatches", key |-> key, depth |-> depth,
              res |-> leafMatches(heap[root], key, depth)]
  /\ UNCHANGED <<root, heap, free, tree_size, crashed, hist, nops, nqry,
                 other, writer, reader>>

NextLeaf ==
  \E key \in Keys : \E depth \in 0..Len(key) : LeafMatchesCall(key, depth)

SpecLeaf == InitLeaf /\ [][NextLeaf]_vars

\* C20: for every leaf, query key and depth <= len(key), leaf_matches(key,
\* depth) is true exactly when the stored key has the length of the query
\* and stored_key[i] = key[i] for every i from depth to the end.
C20_LeafMatch ==
  last.op = "leafMatches" =>
    last.res = (/\ Len(heap[root].key) = Len(last.key)
                /\ \A i \in last.depth..(Len(last.key) - 1) :
                     heap[root].key[i + 1] = last.key[i + 1])

\* ------------------------------------------------------------------------
\* Long keys: the caller inserts keys that are a run of equal bytes closed
\* by a different byte, so two of them share a run as long as the shorter
\* one's, up to more than MAX_PREFIX_LEN bytes.
\* ------------------------------------------------------------------------
Run(n) == [i \in 1..n |-> 1]

CapKeys == {Run(n) \o <<0>> : n \in 0..(CapRun + 1)}

\* ART tree{}, the caller's record being over the long keys
InitCap ==
  /\ root = nullptr
  /\ heap = <<>>
  /\ free = <<>>
  /\ tree_size = 0
  /\ crashed = FALSE
  /\ hist = [k \in CapKeys |-> 0]
  /\ nops = 0
  /\ nqry = 0
  /\ last = NoCall
  /\ other = NoTree
  /\ writer = WriterIdle
  /\ reader = ReaderIdle

NextCap ==
  \/ InsertNewCall(CapKeys, {1}, CapOps)
  \/ SearchCall(CapKeys, MaxQueries)

SpecCap == InitCap /\ [][NextCap]_vars

\* the stores of insert(key, value), one memory after each
StoresOf(mem, key, value, o) == insertSteps(mem, key, value, o).mems

\* a block of prefix stores went past the prefix array: in one step of the
\* trace a live inner node's prefix changed and so did the keys array that
\* lies behind it
SpillsPrefix(mems) ==
  \E i \in 1..(Len(mems) - 1) : \E a \in 1..Len(mems[i].heap) :
    /\ mems[i].heap[a].type # "Leaf"
    /\ ~mems[i].heap[a].freed
    /\ mems[i + 1].heap[a].type = mems[i].heap[a].type
    /\ mems[i + 1].heap[a].prefix # mems[i].heap[a].prefix
    /\ mems[i + 1].heap[a].keys # mems[i].heap[a].keys

\* the insert just made split, at site s, a leaf whose key shares with the
\* new key a run of more than MAX_PREFIX_LEN bytes
CapSplitAt(s) ==
  /\ SplitsLeafAt(s)
  /\ CommonLen(heap[Load(Mem, s.slot)].key, last'.key, s.depth) > MAX_PREFIX_LEN

\* the node in the root slot has a prefix longer than the array that
\* stores it
LongPrefixAtRoot(mem) ==
  /\ mem.root # nullptr
  /\ mem.heap[mem.root].type # "Leaf"
  /\ ~mem.heap[mem.root].freed
  /\ mem.heap[mem.root].prefix_len > MAX_PREFIX_LEN

\* key starts with the MAX_PREFIX_LEN bytes the node in the root slot stores
MatchesStoredPrefix(mem, key) ==
  /\ Len(key) >= MAX_PREFIX_LEN
  /\ \A j \in 0..(MAX_PREFIX_LEN - 1) : mem.heap[mem.root].prefix[j] = key[j + 1]

\* C21: no insert writes a prefix byte at an index >= MAX_PREFIX_LEN (8);
\* when a leaf split finds a common run m longer than 8 bytes, the first 8
\* bytes are stored and prefix_len is set to m; and the keys that match the
\* 8 stored bytes are still found after that split and after later inserts
\* and searches.
C21_PrefixCap ==
  [][/\ \A s \in InsertSites(Mem, last'.key) :
          CapSplitAt(s) =>
            /\ \A o \in InsertOraclesAt(Mem) :
                 Last(StoresOf(Mem, last'.key, hist'[last'.key], o)) = MemNext
                   => ~SpillsPrefix(StoresOf(Mem, last'.key, hist'[last'.key], o))
            /\ heap'[Load(MemNext, s.slot)].prefix_len
                 = CommonLen(heap[Load(Mem, s.slot)].key, last'.key, s.depth)
            /\ \A j \in 0..(MAX_PREFIX_LEN - 1) :
                 heap'[Load(MemNext, s.slot)].prefix[j] = last'.key[s.depth + j + 1]
     /\ (LongPrefixAtRoot(MemNext) /\ ~crashed' /\ NoneFreed(MemNext)) =>
          \A k \in StoredIn(hist') :
            MatchesStoredPrefix(MemNext, k) => SearchOutcomes(MemNext, k) = {hist'[k]}]_vars

====
